---- MODULE Spec2Model ----
(***************************************************************************)
(* A model of the persisted-query-manifest generator                       *)
(* (generatePersistedQueryManifest and its helpers, final revision).       *)
(*                                                                         *)
(* File paths and names are modelled as naturals whose numeric order       *)
(* stands for the order the code sorts them by (localeCompare for paths,   *)
(* lodash's ascending comparison for names).  Name 0 is "no name" (an      *)
(* anonymous operation).  A parsed document (DocumentNode) is the sequence *)
(* of its top-level definitions; the null node is the empty sequence.      *)
(***************************************************************************)
EXTENDS Naturals, Sequences, FiniteSets, TLC

\* ---------------------------------------------------------------- bounds
MaxFiles == 2
MaxGlob == 3
MaxDefs == 3
MaxName == 2
MaxFragName == 1
MaxCustomId == 1

\* The path of the GraphQL Codegen persisted-documents file (custom source).
CodegenFile == 0

Paths == 1 .. MaxFiles
Files == {CodegenFile} \cup Paths
FragNames == 1 .. MaxFragName

\* ------------------------------------------------------- the input domain
FragmentDef(n) == [kind |-> "FragmentDefinition", name |-> n, operation |-> "fragment"]
OperationDef(n, t) == [kind |-> "OperationDefinition", name |-> n, operation |-> t]

\* Operations of the corpus: anonymous queries, and named operations whose
\* type alternates with the name (odd names are queries, even ones mutations).
TypeOfName(n) == IF n % 2 = 0 /\ n > 0 THEN "mutation" ELSE "query"

DefSet ==
  {FragmentDef(n) : n \in FragNames} \cup {OperationDef(n, TypeOfName(n)) : n \in 0 .. MaxName}

DocsUpTo(b) == UNION {[1 .. n -> DefSet] : n \in 1 .. b}

RECURSIVE DocSeqs(_)
\* Every sequence of (non-empty) documents holding at most b definitions.
DocSeqs(b) ==
  {<<>>} \cup UNION {{<<d>> \o rest : rest \in DocSeqs(b - Len(d))} : d \in DocsUpTo(b)}

Unread == [read |-> FALSE, parses |-> FALSE, docs |-> <<>>]
Unparsable == [read |-> TRUE, parses |-> FALSE, docs |-> <<>>]
Parsed(ds) == [read |-> TRUE, parses |-> TRUE, docs |-> ds]

RECURSIVE SumLen(_)
SumLen(ds) == IF ds = <<>> THEN 0 ELSE Len(Head(ds)) + SumLen(Tail(ds))

Range(s) == {s[i] : i \in DOMAIN s}

\* What globby may resolve to: the matched files in any order, with repeats.
\* The files that exist are named so that the matched ones are the first in
\* the order of the paths.
GlobResults ==
  {globbed \in UNION {[1 .. n -> Paths] : n \in 0 .. MaxGlob} :
     Range(globbed) = 1 .. Cardinality(Range(globbed))}

\* ------------------------------------------------------------ JS helpers
RECURSIVE uniq(_)
\* [...new Set(arr)]: first occurrences, in insertion order.
uniq(arr) ==
  IF arr = <<>> THEN <<>>
  ELSE LET init == uniq(SubSeq(arr, 1, Len(arr) - 1))
           last == arr[Len(arr)]
       IN IF last \in Range(init) THEN init ELSE Append(init, last)

RECURSIVE InsertPath(_, _)
InsertPath(sorted, p) ==
  IF sorted = <<>> THEN <<p>>
  ELSE IF p < Head(sorted) THEN <<p>> \o sorted
  ELSE <<Head(sorted)>> \o InsertPath(Tail(sorted), p)

RECURSIVE sortLocaleCompare(_)
\* arr.sort((a, b) => a.localeCompare(b))
sortLocaleCompare(arr) ==
  IF arr = <<>> THEN <<>>
  ELSE InsertPath(sortLocaleCompare(SubSeq(arr, 1, Len(arr) - 1)), arr[Len(arr)])

\* The glob's result sorted as it came, repeated paths kept.
getFilepathsNoUniq(globbed) == sortLocaleCompare(globbed)

\* getFilepaths for a glob specification, applied to globby's result.
getFilepaths(globbed) == sortLocaleCompare(uniq(globbed))

\* A Map is the sequence of its entries in insertion order.
MapHas(m, k) == \E i \in DOMAIN m : m[i].key = k
MapGetOr(m, k) ==
  IF MapHas(m, k) THEN m[CHOOSE i \in DOMAIN m : m[i].key = k].val ELSE <<>>
MapSet(m, k, v) ==
  IF MapHas(m, k)
  THEN [i \in DOMAIN m |-> IF m[i].key = k THEN [key |-> k, val |-> v] ELSE m[i]]
  ELSE Append(m, [key |-> k, val |-> v])

\* --------------------------------------------------------- diagnostics
\* A message as file.message() makes it, its fatal flag never set.
MessageLeftAsMade(reason, name, ref, location) ==
  [reason |-> reason, name |-> name, ref |-> ref, location |-> location, fatal |-> FALSE]

Message(reason, name, ref, location) ==
  [reason |-> reason, name |-> name, ref |-> ref, location |-> location, fatal |-> TRUE]

\* addError(source, message): file.message(message, source.location), fatal.
addError(msgs, file, m) == [msgs EXCEPT ![file] = Append(@, m)]

\* getDocumentSources without its try/catch: the parse error leaves it.
getDocumentSourcesWithoutCatch(filepath, content) ==
  IF content.parses
  THEN [sources |-> [i \in 1 .. Len(content.docs) |->
                       [file |-> filepath, node |-> content.docs[i], location |-> i]],
        errors |-> <<>>,
        throws |-> FALSE]
  ELSE [sources |-> <<>>, errors |-> <<>>, throws |-> TRUE]

\* getDocumentSources(filepath), given what reading and parsing the file gives:
\* the sources it returns, the messages it leaves on the file, and whether an
\* exception leaves it (the catch block makes that never happen).
getDocumentSources(filepath, content) ==
  IF content.parses
  THEN [sources |-> [i \in 1 .. Len(content.docs) |->
                       [file |-> filepath, node |-> content.docs[i], location |-> i]],
        errors |-> <<>>,
        throws |-> FALSE]
  ELSE [sources |-> <<[file |-> filepath, node |-> <<>>, location |-> 0]>>,
        errors |-> <<Message("parseError", 0, 0, 0)>>,
        throws |-> FALSE]

\* --------------------------- fromGraphQLCodegenPersistedDocuments
\* What the persisted-documents file of GraphQL Codegen may be: missing, not
\* JSON, JSON that is not an object of strings, an object of strings one of
\* which is no GraphQL document, or an object of documents.
ManifestKinds ==
  {"missing", "invalidJSON", "notStringRecord", "unparsableDocument", "documents"}

\* getSourceWithError(message)
getSourceWithError(reason) ==
  [sources |-> <<[file |-> CodegenFile, node |-> <<>>, location |-> 0]>>,
   errors |-> <<Message(reason, 0, 0, 0)>>,
   throws |-> FALSE]

\* The custom source without its try/catch: JSON.parse and parse throw.
fromGraphQLCodegenPersistedDocumentsWithoutCatch(kind, docs) ==
  IF kind = "missing" THEN getSourceWithError("graphqlCodegenManifestFileNotFound")
  ELSE IF kind = "notStringRecord"
  THEN getSourceWithError("malformedGraphQLCodegenManifest")
  ELSE IF kind \in {"invalidJSON", "unparsableDocument"}
  THEN [sources |-> <<>>, errors |-> <<>>, throws |-> TRUE]
  ELSE [sources |-> [i \in DOMAIN docs |->
                       [file |-> CodegenFile, node |-> docs[i], location |-> 0]],
        errors |-> <<>>,
        throws |-> FALSE]

\* The callback of fromGraphQLCodegenPersistedDocuments(filepath), given what
\* the file is: the sources it returns, the messages it leaves on the file,
\* and whether an exception leaves it.
fromGraphQLCodegenPersistedDocuments(kind, docs) ==
  IF kind = "missing" THEN getSourceWithError("graphqlCodegenManifestFileNotFound")
  ELSE IF kind = "invalidJSON" THEN getSourceWithError("parseError")
  ELSE IF kind = "notStringRecord"
  THEN getSourceWithError("malformedGraphQLCodegenManifest")
  ELSE IF kind = "unparsableDocument" THEN getSourceWithError("parseError")
  ELSE [sources |-> [i \in DOMAIN docs |->
                       [file |-> CodegenFile, node |-> docs[i], location |-> 0]],
        errors |-> <<>>,
        throws |-> FALSE]

\* ------------------------------------------- fromFilepathList: the walk
\* A collision reported on the incoming source only.
reportCollisionOneSided(msgs, srcs, s, sibling, reason, name) ==
  addError(msgs, srcs[s].file,
           Message(reason, name, srcs[sibling].file, srcs[s].location))

\* One collision between the incoming source s and an already registered
\* sibling: a diagnostic on each, naming the other's file.
reportCollision(msgs, srcs, s, sibling, reason, name) ==
  addError(
    addError(msgs, srcs[s].file,
             Message(reason, name, srcs[sibling].file, srcs[s].location)),
    srcs[sibling].file,
    Message(reason, name, srcs[s].file, srcs[sibling].location))

RECURSIVE forEachSibling(_, _, _, _, _, _)
\* sources.forEach((sibling) => { addError(source, ..); addError(sibling, ..) })
forEachSibling(msgs, srcs, s, siblings, reason, name) ==
  IF siblings = <<>> THEN msgs
  ELSE forEachSibling(reportCollision(msgs, srcs, s, Head(siblings), reason, name),
                      srcs, s, Tail(siblings), reason, name)

\* The visitor state: the two registries of fromFilepathList and the files' messages.
FragmentDefinition(vs, srcs, s, node) ==
  LET name == node.name
      siblings == MapGetOr(vs.fragmentsByName, name)
  IN [vs EXCEPT
        !.messages = forEachSibling(@, srcs, s, siblings, "uniqueFragment", name),
        !.fragmentsByName = MapSet(@, name, Append(siblings, s))]

\* A visitor that skips the extra operation and goes on with the document.
multipleOperationsReturnFalse == "false"

\* What the OperationDefinition visitor returns once documentCount exceeds 1.
multipleOperationsReturn == "BREAK"

\* An OperationDefinition visitor without the test of the name.
OperationDefinitionWithoutNameTest(vs, srcs, s, node, documentCount) ==
  IF documentCount + 1 > 1
  THEN [vs |-> [vs EXCEPT !.messages =
                  addError(@, srcs[s].file,
                           Message("multipleOperations", 0, 0, srcs[s].location))],
        return |-> "BREAK"]
  ELSE LET siblings == MapGetOr(vs.operationsByName, node.name)
       IN [vs |-> [vs EXCEPT
                     !.messages = forEachSibling(@, srcs, s, siblings,
                                                 "uniqueOperation", node.name),
                     !.operationsByName = MapSet(@, node.name, Append(siblings, s))],
           return |-> "false"]

\* The OperationDefinition visitor; documentCount is its value before the ++.
OperationDefinition(vs, srcs, s, node, documentCount) ==
  IF documentCount + 1 > 1
  THEN [vs |-> [vs EXCEPT !.messages =
                  addError(@, srcs[s].file,
                           Message("multipleOperations", 0, 0, srcs[s].location))],
        return |-> multipleOperationsReturn]
  ELSE IF node.name = 0
  THEN [vs |-> [vs EXCEPT !.messages =
                  addError(@, srcs[s].file,
                           Message("anonymousOperation", 0, 0, srcs[s].location))],
        return |-> "false"]
  ELSE LET siblings == MapGetOr(vs.operationsByName, node.name)
       IN [vs |-> [vs EXCEPT
                     !.messages = forEachSibling(@, srcs, s, siblings,
                                                 "uniqueOperation", node.name),
                     !.operationsByName = MapSet(@, node.name, Append(siblings, s))],
           return |-> "false"]

RECURSIVE visitFrom(_, _, _, _, _)
\* visit(source.node, {...}) from the i-th top-level definition on.
visitFrom(vs, srcs, s, i, documentCount) ==
  IF i > Len(srcs[s].node) THEN vs
  ELSE LET node == srcs[s].node[i]
       IN IF node.kind = "FragmentDefinition"
          THEN visitFrom(FragmentDefinition(vs, srcs, s, node), srcs, s, i + 1, documentCount)
          ELSE LET r == OperationDefinition(vs, srcs, s, node, documentCount)
               IN IF r.return = "BREAK" THEN r.vs
                  ELSE visitFrom(r.vs, srcs, s, i + 1, documentCount + 1)

\* A validator that gives up on the corpus once some file holds a diagnostic.
validateSourceUntilFirstError(vs, srcs, s) ==
  IF srcs[s].node = <<>> \/ \E f \in DOMAIN vs.messages : vs.messages[f] # <<>>
  THEN vs
  ELSE visitFrom(vs, srcs, s, 1, 0)

\* One iteration of `for (const source of sources)` in fromFilepathList.
validateSource(vs, srcs, s) ==
  IF srcs[s].node = <<>> THEN vs ELSE visitFrom(vs, srcs, s, 1, 0)

RECURSIVE validateSources(_, _, _)
\* for (const source of sources) { ... } of fromFilepathList, from source s on.
validateSources(vs, srcs, s) ==
  IF s > Len(srcs) THEN vs
  ELSE validateSources(validateSource(vs, srcs, s), srcs, s + 1)

RECURSIVE flatMapGetDocumentSources(_, _, _)
\* filepaths.flatMap(getDocumentSources), with the parse diagnostics it leaves.
flatMapGetDocumentSources(fps, fsys, msgs) ==
  IF fps = <<>> THEN [sources |-> <<>>, messages |-> msgs, throws |-> FALSE]
  ELSE LET got == getDocumentSources(Head(fps), fsys[Head(fps)])
       IN IF got.throws
          THEN [sources |-> <<>>, messages |-> msgs, throws |-> TRUE]
          ELSE LET rest == flatMapGetDocumentSources(
                             Tail(fps), fsys,
                             [msgs EXCEPT ![Head(fps)] = @ \o got.errors])
               IN [sources |-> got.sources \o rest.sources,
                   messages |-> rest.messages,
                   throws |-> rest.throws]

\* fromFilepathList after `await getFilepaths(documents)`: the sources, the
\* two registries and the files' messages it leaves.
fromFilepathList(fps, fsys, msgs) ==
  LET loaded == flatMapGetDocumentSources(fps, fsys, msgs)
      vs == validateSources([fragmentsByName |-> <<>>, operationsByName |-> <<>>,
                             messages |-> loaded.messages], loaded.sources, 1)
  IN IF loaded.throws
     THEN [sources |-> <<>>, messages |-> loaded.messages, fragmentsByName |-> <<>>,
           operationsByName |-> <<>>, throws |-> TRUE]
     ELSE [sources |-> loaded.sources,
           messages |-> vs.messages,
           fragmentsByName |-> vs.fragmentsByName,
           operationsByName |-> vs.operationsByName,
           throws |-> FALSE]

\* ------------------------------- generatePersistedQueryManifest: registry
RECURSIVE recordOperationsFirstOnly(_, _, _, _)
\* A registry walk that stops a document at its first operation definition.
recordOperationsFirstOnly(byName, srcs, s, i) ==
  IF i > Len(srcs[s].node) THEN byName
  ELSE LET node == srcs[s].node[i]
       IN IF node.kind = "OperationDefinition"
          THEN (IF node.name # 0
                THEN MapSet(byName, node.name, Append(MapGetOr(byName, node.name), s))
                ELSE byName)
          ELSE recordOperationsFirstOnly(byName, srcs, s, i + 1)

RECURSIVE recordOperationsLatestSource(_, _, _, _)
\* A registry walk that keeps, for each name, the latest source only.
recordOperationsLatestSource(byName, srcs, s, i) ==
  IF i > Len(srcs[s].node) THEN byName
  ELSE LET node == srcs[s].node[i]
       IN IF node.kind = "OperationDefinition" /\ node.name # 0
          THEN recordOperationsLatestSource(MapSet(byName, node.name, <<s>>),
                                            srcs, s, i + 1)
          ELSE recordOperationsLatestSource(byName, srcs, s, i + 1)

RECURSIVE recordOperations(_, _, _, _)
\* visit(source.node, { OperationDefinition }) of the registry walk.
recordOperations(byName, srcs, s, i) ==
  IF i > Len(srcs[s].node) THEN byName
  ELSE LET node == srcs[s].node[i]
       IN IF node.kind = "OperationDefinition" /\ node.name # 0
          THEN recordOperations(
                 MapSet(byName, node.name, Append(MapGetOr(byName, node.name), s)),
                 srcs, s, i + 1)
          ELSE recordOperations(byName, srcs, s, i + 1)

RECURSIVE registryWalkSkippingMultipleOperations(_, _, _)
\* A registry walk that leaves out the documents of several operations.
registryWalkSkippingMultipleOperations(byName, srcs, s) ==
  IF s > Len(srcs) THEN byName
  ELSE registryWalkSkippingMultipleOperations(
         IF Len(SelectSeq(srcs[s].node,
                          LAMBDA d : d.kind = "OperationDefinition")) > 1
         THEN byName
         ELSE recordOperations(byName, srcs, s, 1),
         srcs, s + 1)

RECURSIVE registryWalk(_, _, _)
\* for (const source of sources) { if (!source.node) continue; visit(..) }
registryWalk(byName, srcs, s) ==
  IF s > Len(srcs) THEN byName
  ELSE registryWalk(recordOperations(byName, srcs, s, 1), srcs, s + 1)

\* A gate that exits only when every file it is given holds a message.
maybeReportErrorsAndExitEvery(files, msgs) == \A f \in files : Len(msgs[f]) > 0

\* A gate that exits on parse failures only.
maybeReportErrorsAndExitOnParseErrors(files, msgs) ==
  \E f \in files : \E i \in DOMAIN msgs[f] : msgs[f][i].reason = "parseError"

\* maybeReportErrorsAndExit(files): whether it reports and exits.
maybeReportErrorsAndExit(files, msgs) == \E f \in files : Len(msgs[f]) > 0

SourceFiles(srcs) == {srcs[i].file : i \in DOMAIN srcs}

\* --------------------------------------------- normalisation and ids
\* "FragmentDefinition" sorts before "OperationDefinition".
KindBefore(a, b) == a = "FragmentDefinition" /\ b = "OperationDefinition"
DefLess(a, b) == KindBefore(a.kind, b.kind) \/ (a.kind = b.kind /\ a.name < b.name)

RECURSIVE InsertDef(_, _)
InsertDef(sorted, d) ==
  IF sorted = <<>> THEN <<d>>
  ELSE IF DefLess(d, Head(sorted)) THEN <<d>> \o sorted
  ELSE <<Head(sorted)>> \o InsertDef(Tail(sorted), d)

RECURSIVE sortTopLevelDefinitions(_)
\* The canonical order of the top-level definitions: by kind, then by name (stable).
sortTopLevelDefinitions(query) ==
  IF query = <<>> THEN <<>>
  ELSE InsertDef(sortTopLevelDefinitions(SubSeq(query, 1, Len(query) - 1)),
                 query[Len(query)])

\* print(document): the printed text, one item per top-level definition.
print(query) == [i \in DOMAIN query |-> <<query[i].operation, query[i].name>>]

\* The SHA-256 hex digest of a text (injective here), and an id a custom
\* createOperationId makes up itself.
sha256(query) == [sha256 |-> query, custom |-> 0]
CustomId(k) == [sha256 |-> <<>>, custom |-> k]

\* A digest taken without feeding it the query.
defaultCreateOperationIdNoUpdate(query) == sha256(<<>>)

\* defaults.createOperationId
defaultCreateOperationId(query) == sha256(query)

\* The closure the link hands to createOperationId:
\* createDefaultId() { return defaults.createOperationId(body) }
createDefaultId(body) == defaultCreateOperationId(body)

\* The calls made to a custom createOperationId, with the one the link makes
\* for this operation: its arguments, what createDefaultId() gives if called,
\* and what the function returns.
customCalls(calls, strategy, body, operation, ret) ==
  IF strategy = "default" THEN calls
  ELSE Append(calls, [body |-> body,
                      operationName |-> operation.name,
                      type |-> operation.operation,
                      createDefaultId |-> createDefaultId(body),
                      ret |-> ret])

\* A createOperationId that is always the default one, whatever the config.
createOperationIdAlwaysDefault(strategy, body, ret) == defaultCreateOperationId(body)

\* createOperationId(body, { operationName, type, createDefaultId }): the
\* default, or the custom function, whose return is ret: 0 when it returns
\* createDefaultId(), k > 0 when it returns an id of its own.
createOperationId(strategy, body, ret) ==
  IF strategy = "default" THEN defaultCreateOperationId(body)
  ELSE IF ret = 0 THEN createDefaultId(body)
  ELSE CustomId(ret)

OperationDefinitions(query) == SelectSeq(query, LAMBDA d : d.kind = "OperationDefinition")

\* Whether client.query rejects before the link runs: the engine refuses a
\* document that does not hold exactly one operation; engineThrows stands for
\* every other failure inside it (the document transform throwing, a fragment
\* the registry does not know).
queryRejects(query, engineThrows) ==
  Len(OperationDefinitions(query)) # 1 \/ engineThrows

RECURSIVE InsertEntry(_, _)
InsertEntry(sorted, e) ==
  IF sorted = <<>> THEN <<e>>
  ELSE IF e.key < Head(sorted).key THEN <<e>> \o sorted
  ELSE <<Head(sorted)>> \o InsertEntry(Tail(sorted), e)

\* The entries left in the order the Map holds them.
sortByFirstInsertionOrder(entries) == entries

RECURSIVE sortByFirst(_)
\* sortBy([...operationsByName.entries()], first): ascending by name, stable.
sortByFirst(entries) ==
  IF entries = <<>> THEN <<>>
  ELSE InsertEntry(sortByFirst(SubSeq(entries, 1, Len(entries) - 1)),
                   entries[Len(entries)])

RECURSIVE Flatten(_)
Flatten(entries) ==
  IF entries = <<>> THEN <<>> ELSE Head(entries).val \o Flatten(Tail(entries))

\* The sources in the order the registry holds them, names unsorted.
executionOrderAsRegistered(byName) == Flatten(byName)

\* The sources in the order the two nested for-loops run client.query on them.
executionOrder(byName) == Flatten(sortByFirst(byName))

\* A link that records every id without looking whether it is already there.
linkWithoutIdCheck(es, body, name, type, id) ==
  [es EXCEPT
     !.manifestOperationIds = MapSet(@, id, name),
     !.manifestOperations =
        Append(@, [id |-> id, name |-> name, type |-> type, body |-> body])]

\* A link that looks for a used id only when a config file path was given.
linkOnlyWithConfigFilePath(es, body, name, type, id) ==
  IF es.configFile.path = "<virtual>"
  THEN linkWithoutIdCheck(es, body, name, type, id)
  ELSE [es EXCEPT
          !.configFile.messages =
             IF MapHas(es.manifestOperationIds, id)
             THEN Append(@, Message("uniqueOperationId", name,
                                    MapGetOr(es.manifestOperationIds, id), 0))
             ELSE @,
          !.manifestOperationIds = IF MapHas(@, id) THEN @ ELSE MapSet(@, id, name),
          !.manifestOperations =
             Append(@, [id |-> id, name |-> name, type |-> type, body |-> body])]

\* A link that reports a used id only when another name holds it.
linkCheckingOnlyOtherNames(es, body, name, type, id) ==
  LET used == /\ MapHas(es.manifestOperationIds, id)
              /\ MapGetOr(es.manifestOperationIds, id) # name
  IN [es EXCEPT
        !.configFile.messages =
           IF used
           THEN Append(@, Message("uniqueOperationId", name,
                                  MapGetOr(es.manifestOperationIds, id), 0))
           ELSE @,
        !.manifestOperationIds = IF MapHas(@, id) THEN @ ELSE MapSet(@, id, name),
        !.manifestOperations =
           Append(@, [id |-> id, name |-> name, type |-> type, body |-> body])]

\* The link, from the id on: the id check and the push.
link(es, body, name, type, id) ==
  [es EXCEPT
     !.configFile.messages =
        IF MapHas(es.manifestOperationIds, id)
        THEN Append(@, Message("uniqueOperationId", name,
                               MapGetOr(es.manifestOperationIds, id), 0))
        ELSE @,
     !.manifestOperationIds = IF MapHas(@, id) THEN @ ELSE MapSet(@, id, name),
     !.manifestOperations =
        Append(@, [id |-> id, name |-> name, type |-> type, body |-> body])]

\* The body of the inner for-loop without its try/catch: the rejection of
\* client.query leaves generatePersistedQueryManifest.
executeSourceWithoutCatch(es, srcs, s, strategy, engineThrows, ret) ==
  IF queryRejects(srcs[s].node, engineThrows)
  THEN [es EXCEPT !.threw = TRUE]
  ELSE LET query == srcs[s].node
           body == print(sortTopLevelDefinitions(query))
           operation == Head(OperationDefinitions(query))
       IN link([es EXCEPT !.idCalls = Append(@, s),
                            !.createOperationIdCalls =
                               customCalls(@, strategy, body, operation, ret)],
               body, operation.name, operation.operation,
               createOperationId(strategy, body, ret))

\* The body of the inner for-loop for source s: client.query inside try/catch,
\* and the link it runs; threw tells whether an exception leaves it.
executeSource(es, srcs, s, strategy, engineThrows, ret) ==
  IF queryRejects(srcs[s].node, engineThrows)
  THEN [es EXCEPT !.messages =
          addError(@, srcs[s].file, Message("executionError", 0, 0, srcs[s].location))]
  ELSE LET query == srcs[s].node
           body == print(sortTopLevelDefinitions(query))
           operation == Head(OperationDefinitions(query))
       IN link([es EXCEPT !.idCalls = Append(@, s),
                            !.createOperationIdCalls =
                               customCalls(@, strategy, body, operation, ret)],
               body, operation.name, operation.operation,
               createOperationId(strategy, body, ret))

\* The config-level file: new VFile({ path: configFilePath ?? "<virtual>" }).
configFileOf(cfg) ==
  [path |-> IF cfg.configFilePath = "present" THEN "config" ELSE "<virtual>",
   messages |-> <<>>]

RECURSIVE executeAll(_, _, _, _, _)
\* The two nested for-loops over the sorted registry, for an engine that never
\* fails and a createOperationId that returns rets[body] for the bodies rets
\* knows and createDefaultId() for the others.
executeAll(es, srcs, order, strategy, rets) ==
  IF order = <<>> THEN es
  ELSE LET body == print(sortTopLevelDefinitions(srcs[Head(order)].node))
           ret == IF body \in DOMAIN rets THEN rets[body] ELSE 0
       IN executeAll(executeSource(es, srcs, Head(order), strategy, FALSE, ret),
                     srcs, Tail(order), strategy, rets)

\* generatePersistedQueryManifest as a whole, for file patterns, from the value
\* of `await getFilepaths(documents)` on: what one run gives when the files
\* hold fsys.
manifestFromFilepaths(fps, fsys, cfg, rets) ==
  LET got == fromFilepathList(fps, fsys, [f \in Files |-> <<>>])
      byName == registryWalk(<<>>, got.sources, 1)
      es == executeAll([messages |-> got.messages,
                        configFile |-> configFileOf(cfg),
                        manifestOperationIds |-> <<>>,
                        manifestOperations |-> <<>>,
                        idCalls |-> <<>>,
                        createOperationIdCalls |-> <<>>,
                        threw |-> FALSE],
                       got.sources, executionOrder(byName), cfg.createOperationId, rets)
  IN IF got.throws \/ es.threw THEN [outcome |-> "threw", operations |-> <<>>]
     ELSE IF maybeReportErrorsAndExit(SourceFiles(got.sources), got.messages)
     THEN [outcome |-> "exited", operations |-> <<>>]
     ELSE IF \/ maybeReportErrorsAndExit(SourceFiles(got.sources), es.messages)
             \/ Len(es.configFile.messages) > 0
     THEN [outcome |-> "exited", operations |-> <<>>]
     ELSE [outcome |-> "returned", operations |-> es.manifestOperations]

\* generatePersistedQueryManifest as a whole, when the glob returns globbed.
generatePersistedQueryManifest(globbed, fsys, cfg, rets) ==
  manifestFromFilepaths(getFilepaths(globbed), fsys, cfg, rets)

\* ------------------------------------------------ PrefixingKeyValueCache
\* A string is the sequence of its characters, so that `+` is \o.  The keys
\* callers use, the prefixes caches are built with and the values they store.
CacheKeys == {<<>>, <<"a">>, <<"b">>}
CachePrefixes == {<<>>, <<"a">>, <<"b">>, <<"a", "b">>}
CacheValues == {"bar", "baz"}

\* What get resolves to for a key the cache does not hold.
undefined == "undefined"

\* The keys the wrapped cache may be asked about.
WrappedKeys == {prefix \o key : prefix \in CachePrefixes, key \in CacheKeys}

\* The wrapped cache is an InMemoryLRUCache, bare or inside a
\* PrefixesAreUnnecessaryForIsolationCache.
WrappedClasses == {"InMemoryLRUCache", "PrefixesAreUnnecessaryForIsolationCache"}

\* InMemoryLRUCache, within its capacity and with no ttl.
lruGet(cache, key) == cache[key]
lruSet(cache, key, value) == [cache EXCEPT ![key] = value]
lruDelete(cache, key) == [cache EXCEPT ![key] = undefined]

\* "prefixesAreUnnecessaryForIsolation" in c &&
\* c.prefixesAreUnnecessaryForIsolation === true
prefixesAreUnnecessaryForIsolation(c) == c = "PrefixesAreUnnecessaryForIsolationCache"

\* A constructor that keeps the prefix it is given, whatever it wraps.
PrefixingKeyValueCacheKeepingPrefix(wrappedClass, prefixArg) ==
  [prefixArg |-> prefixArg, prefix |-> prefixArg]

\* new PrefixingKeyValueCache(wrapped, prefix); prefixArg records the argument.
PrefixingKeyValueCache(wrappedClass, prefixArg) ==
  [prefixArg |-> prefixArg,
   prefix |-> IF prefixesAreUnnecessaryForIsolation(wrappedClass) THEN <<>> ELSE prefixArg]

\* The key a method of PrefixingKeyValueCache hands to the wrapped cache; the
\* methods of PrefixesAreUnnecessaryForIsolationCache pass it on as it is.
wrappedKey(this, key) == this.prefix \o key

\* A get that asks the wrapped cache for the caller's key, unprefixed.
prefixingGetUnprefixed(this, cache, key) == lruGet(cache, key)

\* PrefixingKeyValueCache.get, set and delete.
prefixingGet(this, cache, key) == lruGet(cache, wrappedKey(this, key))
prefixingSet(this, cache, key, value) == lruSet(cache, wrappedKey(this, key), value)
prefixingDelete(this, cache, key) == lruDelete(cache, wrappedKey(this, key))

\* No call has been made on a prefixing cache yet.
NoCall ==
  [cache |-> 0, method |-> "none", key |-> <<>>, value |-> undefined,
   wrappedKey |-> <<>>, returned |-> undefined]

VARIABLES config, pc, fs, filepaths, cursor, sources, messages,
          fragmentsByName, listOperationsByName, operationsByName, exitedAt,
          configFile, manifestOperationIds, manifestOperations, idCalls,
          createOperationIdCalls, stdout, stderr, exitCode, outputFile,
          wrapped, inner, prefixing, lastCall

vars == <<config, pc, fs, filepaths, cursor, sources, messages,
          fragmentsByName, listOperationsByName, operationsByName, exitedAt,
          configFile, manifestOperationIds, manifestOperations, idCalls,
          createOperationIdCalls, stdout, stderr, exitCode, outputFile,
          wrapped, inner, prefixing, lastCall>>

\* The caches: the class of the wrapped cache, the entries of the
\* InMemoryLRUCache beneath it, the two prefixing caches built over it, and
\* the last call made on one of them.
cacheVars == <<wrapped, inner, prefixing, lastCall>>

\* No cache is in use.
NoCaches ==
  /\ wrapped = "InMemoryLRUCache"
  /\ inner = <<>>
  /\ prefixing = <<>>
  /\ lastCall = NoCall

\* The command line's side: what it printed, the status the process ended
\* with (<<>> while it runs), and the file at the output path (<<>> while no
\* manifest is written there).
cliVars == <<stdout, stderr, exitCode, outputFile>>

loaderVars == <<fs, filepaths, sources>>
validatorVars == <<fragmentsByName, listOperationsByName>>
engineVars ==
  <<configFile, manifestOperationIds, manifestOperations, idCalls, createOperationIdCalls>>

\* The arguments of generatePersistedQueryManifest. config.documents is read at
\* once; createOperationId and configFilePath act only through the link and the
\* config-level file, and are drawn where the client that captures them is built.
Configs ==
  [documents : {"glob", "custom"},
   createOperationId : {"default", "custom"},
   configFilePath : {"absent", "present"}]

Init ==
  /\ config \in [documents : {"glob", "custom"},
                 createOperationId : {"unread"},
                 configFilePath : {"unread"}]
  /\ pc = "start"
  /\ fs = [p \in Files |-> Unread]
  /\ filepaths = <<>>
  /\ cursor = 0
  /\ sources = <<>>
  /\ messages = [f \in Files |-> <<>>]
  /\ fragmentsByName = <<>>
  /\ listOperationsByName = <<>>
  /\ operationsByName = <<>>
  /\ exitedAt = 0
  /\ configFile = configFileOf(config)
  /\ manifestOperationIds = <<>>
  /\ manifestOperations = <<>>
  /\ idCalls = <<>>
  /\ createOperationIdCalls = <<>>
  /\ stdout = <<>>
  /\ stderr = <<>>
  /\ exitCode = <<>>
  /\ outputFile = <<>>
  /\ NoCaches

\* What reading and parsing one file may give, within b definitions.
FileContents(b) == {Unparsable} \cup {Parsed(ds) : ds \in DocSeqs(b)}

RECURSIVE DefsOf(_, _)
DefsOf(fsys, S) ==
  IF S = {} THEN 0
  ELSE LET f == CHOOSE f \in S : TRUE
       IN SumLen(fsys[f].docs) + DefsOf(fsys, S \ {f})

\* fromFilepathList: const filepaths = await getFilepaths(documents)
GetFilepaths ==
  /\ pc = "start"
  /\ config.documents = "glob"
  /\ \E globbed \in GlobResults : filepaths' = getFilepaths(globbed)
  /\ pc' = IF filepaths' = <<>> THEN "gate1" ELSE "load"
  /\ UNCHANGED <<cacheVars, cliVars, config, fs, cursor, sources, messages, validatorVars,
                 operationsByName, exitedAt, engineVars>>

\* fromFilepathList: readFileSync of the next file of filepaths (a file met
\* again reads the same); the corpus holds at most MaxDefs definitions.
ReadFile ==
  /\ pc = "load"
  /\ cursor < Len(filepaths)
  /\ LET filepath == filepaths[cursor + 1]
     IN \E content \in (IF fs[filepath].read THEN {fs[filepath]}
                        ELSE FileContents(MaxDefs - DefsOf(fs, Files))) :
          fs' = [fs EXCEPT ![filepath] = content]
  /\ cursor' = cursor + 1
  /\ pc' = "load"
  /\ UNCHANGED <<cacheVars, cliVars, config, filepaths, sources, messages, validatorVars,
                 operationsByName, exitedAt, engineVars>>

\* fromFilepathList, once the files are read: the sources, then the walk.
FromFilepathList ==
  /\ pc = "load"
  /\ cursor = Len(filepaths)
  /\ LET got == fromFilepathList(filepaths, fs, messages)
     IN /\ sources' = got.sources
        /\ messages' = got.messages
        /\ fragmentsByName' = got.fragmentsByName
        /\ listOperationsByName' = got.operationsByName
        /\ pc' = IF got.throws THEN "threw" ELSE "gate1"
  /\ cursor' = 0
  /\ UNCHANGED <<cacheVars, cliVars, config, fs, filepaths, operationsByName, exitedAt,
                 engineVars>>

\* fromGraphQLCodegenPersistedDocuments: the custom source's callback.
CustomDocumentsSource ==
  /\ pc = "start"
  /\ config.documents = "custom"
  /\ \E kind \in ManifestKinds :
       \E docs \in (IF kind = "documents" THEN DocSeqs(MaxDefs) ELSE {<<>>}) :
         LET got == fromGraphQLCodegenPersistedDocuments(kind, docs)
         IN /\ fs' = [fs EXCEPT ![CodegenFile] =
                        IF kind = "documents" THEN Parsed(docs) ELSE Unparsable]
            /\ sources' = got.sources
            /\ messages' = [messages EXCEPT ![CodegenFile] = @ \o got.errors]
            /\ pc' = IF got.throws THEN "threw" ELSE "gate1"
  /\ UNCHANGED <<cacheVars, cliVars, config, filepaths, cursor, validatorVars,
                 operationsByName,
                 exitedAt, engineVars>>

\* generatePersistedQueryManifest: the walk that records the operations, then
\* maybeReportErrorsAndExit(uniq(sources.map((source) => source.file))), then
\* the construction of the client.
FirstGate ==
  /\ pc = "gate1"
  /\ operationsByName' = registryWalk(<<>>, sources, 1)
  /\ IF maybeReportErrorsAndExit(SourceFiles(sources), messages)
     THEN /\ pc' = "exited"
          /\ exitedAt' = 1
          /\ stderr' = Append(stderr, "report")
          /\ exitCode' = <<1>>
          /\ UNCHANGED <<config, configFile>>
     ELSE /\ pc' = IF executionOrder(operationsByName') = <<>> THEN "gate2" ELSE "execute"
          /\ exitedAt' = exitedAt
          /\ UNCHANGED <<stderr, exitCode>>
          /\ config' \in {c \in Configs : c.documents = config.documents}
          /\ configFile' = configFileOf(config')
  /\ UNCHANGED <<loaderVars, cursor, messages, validatorVars,
                 manifestOperationIds, manifestOperations, idCalls,
                 createOperationIdCalls, stdout, outputFile, cacheVars>>

\* What a custom createOperationId may return at its next call: 0 for
\* createDefaultId(), or an id of its own; the ids of its own are numbered in
\* the order in which it first returns them.
CustomReturns(calls) ==
  {ret \in 0 .. MaxCustomId :
     ret <= 1 \/ \E i \in DOMAIN calls : calls[i].ret = ret - 1}

\* One `await client.query({ query: source.node })` of the execution loop.
Execute ==
  /\ pc = "execute"
  /\ cursor < Len(executionOrder(operationsByName))
  /\ \E engineThrows \in BOOLEAN,
        ret \in (IF config.createOperationId = "custom"
                 THEN CustomReturns(createOperationIdCalls) ELSE {0}) :
       LET es == executeSource(
                   [messages |-> messages,
                    configFile |-> configFile,
                    manifestOperationIds |-> manifestOperationIds,
                    manifestOperations |-> manifestOperations,
                    idCalls |-> idCalls,
                    createOperationIdCalls |-> createOperationIdCalls,
                    threw |-> FALSE],
                   sources, executionOrder(operationsByName)[cursor + 1],
                   config.createOperationId, engineThrows, ret)
           last == cursor + 1 = Len(executionOrder(operationsByName))
       IN /\ messages' = es.messages
          /\ configFile' = es.configFile
          /\ manifestOperationIds' = es.manifestOperationIds
          /\ manifestOperations' = es.manifestOperations
          /\ idCalls' = es.idCalls
          /\ createOperationIdCalls' = es.createOperationIdCalls
          /\ cursor' = IF last THEN 0 ELSE cursor + 1
          /\ pc' = IF es.threw THEN "threw" ELSE IF last THEN "gate2" ELSE "execute"
  /\ UNCHANGED <<cacheVars, cliVars, config, loaderVars, validatorVars, operationsByName,
                 exitedAt>>

\* maybeReportErrorsAndExit(uniq(sources.map(..).concat(configFile))); return.
SecondGate ==
  /\ pc = "gate2"
  /\ IF \/ maybeReportErrorsAndExit(SourceFiles(sources), messages)
        \/ Len(configFile.messages) > 0
     THEN /\ pc' = "exited" /\ exitedAt' = 2
          /\ stderr' = Append(stderr, "report")
          /\ exitCode' = <<1>>
     ELSE /\ pc' = "returned" /\ exitedAt' = exitedAt
          /\ UNCHANGED <<stderr, exitCode>>
  /\ UNCHANGED <<config, loaderVars, cursor, messages, validatorVars,
                 operationsByName, engineVars, stdout, outputFile, cacheVars>>

\* The command's action once `await generatePersistedQueryManifest(config)`
\* has resolved: console.log(`Written to ${outputPath}`); the returned
\* manifest is dropped, and the process ends with status 0 when nothing is
\* left to run.
action ==
  /\ pc = "returned"
  /\ pc' = "logged"
  /\ stdout' = Append(stdout, "Written to outputPath")
  /\ exitCode' = <<0>>
  /\ UNCHANGED <<config, loaderVars, cursor, messages, validatorVars,
                 operationsByName, exitedAt, engineVars, stderr, outputFile,
                 cacheVars>>

Next ==
  \/ GetFilepaths
  \/ ReadFile
  \/ FromFilepathList
  \/ CustomDocumentsSource
  \/ FirstGate
  \/ Execute
  \/ SecondGate
  \/ action

Spec == Init /\ [][Next]_vars

\* ------------------------------------------------------------ properties
Count(seq, Test(_)) == Len(SelectSeq(seq, Test))

\* Some file, the config-level file included, holds a fatal diagnostic.
HoldsFatal ==
  \/ \E f \in Files : \E i \in DOMAIN messages[f] : messages[f][i].fatal
  \/ \E i \in DOMAIN configFile.messages : configFile.messages[i].fatal

\* C1: a manifest is returned only from the second gate and only when no file,
\* source or config-level, holds a fatal diagnostic (diagnostics are never
\* removed, so none was held at the first gate either); a gate reached while
\* any file holds a fatal diagnostic ends the run in the error exit, and the
\* error exit is final, so no manifest follows it.
C1_ManifestOnlyThroughCleanGates ==
  [][ /\ (pc \in {"gate1", "gate2"} /\ HoldsFatal) => pc' = "exited"
      /\ pc' = "returned" => (pc = "gate2" /\ ~HoldsFatal /\ ~HoldsFatal')
      /\ pc = "exited" => pc' = "exited"
      /\ \A f \in Files : Len(messages'[f]) >= Len(messages[f])
    ]_vars

\* The run exited at the second gate on one file's diagnostic while another
\* source file is clean and manifest entries were already computed.
C1_Witness ==
  /\ pc = "exited" /\ exitedAt = 2
  /\ manifestOperations # <<>>
  /\ \E f, g \in SourceFiles(sources) : messages[f] # <<>> /\ messages[g] = <<>>

\* C2: in a returned manifest no two entries share an id, whatever the id
\* strategy and the document source.
C2_ReturnedIdsUnique ==
  pc = "returned" =>
    \A i, j \in DOMAIN manifestOperations :
      i # j => manifestOperations[i].id # manifestOperations[j].id

\* A manifest of two entries returned under a custom id strategy and a custom
\* document source.
C2_Witness ==
  /\ pc = "returned"
  /\ Len(manifestOperations) >= 2
  /\ config.createOperationId = "custom"
  /\ config.documents = "custom"

\* fromFilepathList has just returned: the state the first gate looks at.
AfterWalk == config.documents = "glob" /\ pc = "gate1"

\* The validator walk of fromFilepathList is over.
PostWalk ==
  /\ config.documents = "glob"
  /\ pc \in {"gate1", "execute", "gate2", "exited", "returned"}

DuplicateReason(kind) ==
  IF kind = "FragmentDefinition" THEN "uniqueFragment" ELSE "uniqueOperation"

\* Source s declares name n as a definition of this kind.
Declares(s, kind, n) ==
  \E i \in DOMAIN sources[s].node :
    sources[s].node[i].kind = kind /\ sources[s].node[i].name = n

\* The operation definitions of source s before its i-th definition.
OperationsBefore(s, i) ==
  Count(SubSeq(sources[s].node, 1, i - 1), LAMBDA d : d.kind = "OperationDefinition")

\* Source s declares name n in a definition the walk registers: a fragment
\* met before the document's second operation definition, or the document's
\* first operation definition.
Registers(s, kind, n) ==
  \E i \in DOMAIN sources[s].node :
    /\ sources[s].node[i].kind = kind /\ sources[s].node[i].name = n
    /\ OperationsBefore(s, i) <= (IF kind = "FragmentDefinition" THEN 1 ELSE 0)

\* Source s carries one duplicate-name diagnostic for each other source of
\* file g among the sources of others.
ReportsEachOther(s, kind, n, others) ==
  \A g \in Files :
    Count(messages[sources[s].file],
          LAMBDA m : /\ m.fatal
                     /\ m.reason = DuplicateReason(kind)
                     /\ m.name = n
                     /\ m.ref = g
                     /\ m.location = sources[s].location)
      >= Cardinality({s2 \in others \ {s} : sources[s2].file = g})

\* C3 as stated: every name declared by two or more sources is reported on
\* each declaring source against each other declaring source, and no manifest
\* is produced.
C3_EveryDeclarationReported ==
  PostWalk =>
    \A kind \in {"FragmentDefinition", "OperationDefinition"}, n \in 1 .. MaxName :
      LET declaring == {s \in DOMAIN sources : Declares(s, kind, n)}
      IN Cardinality(declaring) >= 2 =>
           /\ \A s \in declaring : ReportsEachOther(s, kind, n, declaring)
           /\ pc # "returned"

\* C3: after the validator walk of fromFilepathList, for every fragment name
\* and every operation name registered by n >= 2 document sources (a
\* declaration is registered unless it is the second or a later operation
\* definition of its document, or follows the document's second operation
\* definition), each of the n sources carries, for each of the other n-1, a
\* fatal duplicate-name diagnostic naming that other source's file, and no
\* manifest is produced.
C3_RegisteredDuplicatesReported ==
  (AfterWalk \/ (PostWalk /\ pc = "returned")) =>
    \A kind \in {"FragmentDefinition", "OperationDefinition"}, n \in 1 .. MaxName :
      LET registering == {s \in DOMAIN sources : Registers(s, kind, n)}
      IN Cardinality(registering) >= 2 =>
           /\ \A s \in registering : ReportsEachOther(s, kind, n, registering)
           /\ pc # "returned"

\* Three sources of two files register the same operation name and the run
\* has ended at the first gate.
C3_Witness ==
  /\ PostWalk /\ pc = "exited"
  /\ \E n \in 1 .. MaxName :
       LET registering == {s \in DOMAIN sources : Registers(s, "OperationDefinition", n)}
       IN /\ Cardinality(registering) = 3
          /\ Cardinality({sources[s].file : s \in registering}) = 2

\* C4: the operations of a returned manifest are in ascending order of name.
C4_ReturnedSortedByName ==
  pc = "returned" =>
    \A i, j \in DOMAIN manifestOperations :
      i < j => manifestOperations[i].name <= manifestOperations[j].name

\* A returned manifest of two operations that were discovered in descending
\* order of name.
C4_Witness ==
  /\ pc = "returned"
  /\ Len(manifestOperations) >= 2
  /\ Len(operationsByName) >= 2
  /\ operationsByName[1].key > operationsByName[2].key

\* C5: when config.createOperationId is not supplied, the id of every
\* operation of the returned manifest is the SHA-256 digest of that same
\* operation's body.
C5_DefaultIdIsDigestOfBody ==
  (pc = "returned" /\ config.createOperationId = "default") =>
    \A i \in DOMAIN manifestOperations :
      manifestOperations[i].id = sha256(manifestOperations[i].body)

\* A manifest returned under the default id strategy with an operation whose
\* document was written with the operation before its fragment.
C5_Witness ==
  /\ pc = "returned"
  /\ config.createOperationId = "default"
  /\ \E i \in DOMAIN manifestOperations :
       print(sources[idCalls[i]].node) # manifestOperations[i].body

\* What the id strategy of this run returned, as a function of the body.
ObservedReturns ==
  [body \in {manifestOperations[i].body : i \in DOMAIN manifestOperations} |->
     LET i == CHOOSE i \in DOMAIN manifestOperations : manifestOperations[i].body = body
     IN manifestOperations[i].id.custom]

\* What getFilepaths gives for each outcome of file discovery that names a
\* given set of paths.
FilepathsOfSet ==
  [S \in SUBSET Paths |->
     {getFilepaths(globbed) : globbed \in {g \in GlobResults : Range(g) = S}}]

\* C6: with file patterns, the returned manifest is what a whole run of the
\* generator gives, with the same id strategy and an engine that does not
\* fail, for every outcome of file discovery that names the same set of
\* paths, in any order and with any repetition, over the same file contents:
\* the same operations in the same order with the same ids and bodies.
C6_ManifestIsFunctionOfFileSet ==
  (pc = "returned" /\ config.documents = "glob") =>
    \A fps \in FilepathsOfSet[Range(filepaths)] :
      manifestFromFilepaths(fps, fs, config, ObservedReturns)
        = [outcome |-> "returned", operations |-> manifestOperations]

\* A manifest of two operations returned from two files.
C6_Witness ==
  /\ pc = "returned" /\ config.documents = "glob"
  /\ Len(filepaths) = 2
  /\ Len(manifestOperations) >= 2
  /\ \E i, j \in DOMAIN idCalls : sources[idCalls[i]].file # sources[idCalls[j]].file

\* The j-th entry of ops got an id that an earlier entry of another name holds.
IdCollision(ops, j) ==
  \E i \in 1 .. j - 1 : ops[i].id = ops[j].id /\ ops[i].name # ops[j].name

\* The name of the first operation of ops that was given the id of entry j.
DefinedOperationName(ops, j) ==
  LET i == CHOOSE i \in 1 .. j :
             /\ ops[i].id = ops[j].id
             /\ \A k \in 1 .. i - 1 : ops[k].id # ops[j].id
  IN ops[i].name

\* C7: the step in which the id strategy returns, for an operation, an id
\* already assigned to an operation with a different name appends one fatal
\* diagnostic to the config-level file (whose path is the virtual one when no
\* config path is given) and leaves every document file's messages as they
\* were; from then on the run never returns a manifest, and when it exits it
\* exits at the second gate.
C7_IdCollisionFatalOnConfigFile ==
  [][ /\ (/\ Len(manifestOperations') = Len(manifestOperations) + 1
          /\ IdCollision(manifestOperations', Len(manifestOperations) + 1)) =>
            /\ configFile'.messages =
                 Append(configFile.messages,
                        [reason |-> "uniqueOperationId",
                         name |-> manifestOperations'[Len(manifestOperations) + 1].name,
                         ref |-> DefinedOperationName(manifestOperations',
                                                      Len(manifestOperations) + 1),
                         location |-> 0,
                         fatal |-> TRUE])
            /\ configFile'.path =
                 (IF config.configFilePath = "present" THEN "config" ELSE "<virtual>")
            /\ messages' = messages
      /\ (\E j \in DOMAIN manifestOperations : IdCollision(manifestOperations, j)) =>
            /\ pc' # "returned"
            /\ pc' = "exited" => exitedAt' = 2
    ]_vars

\* With no config path given, two operations of different names got the same
\* id and the run exited at the second gate.
C7_Witness ==
  /\ pc = "exited" /\ exitedAt = 2
  /\ config.configFilePath = "absent"
  /\ \E j \in DOMAIN manifestOperations : IdCollision(manifestOperations, j)
  /\ \A f \in Files : messages[f] = <<>>

\* The document source, of either kind, has returned its sources.
Discovered == pc \in {"gate1", "execute", "gate2", "exited", "returned"}

IsAnonymousOperation(d) == d.kind = "OperationDefinition" /\ d.name = 0

RECURSIVE DefinitionsAt(_, _, _)
\* The definitions of the sources of srcs that share a file and a location.
DefinitionsAt(srcs, file, location) ==
  IF srcs = <<>> THEN <<>>
  ELSE (IF Head(srcs).file = file /\ Head(srcs).location = location
        THEN Head(srcs).node ELSE <<>>)
       \o DefinitionsAt(Tail(srcs), file, location)

\* The anonymous-operation diagnostics a file holds at a location.
AnonymousDiagnostics(file, location) ==
  Count(messages[file],
        LAMBDA m : m.fatal /\ m.reason = "anonymousOperation" /\ m.location = location)

\* No registry holds an entry for the absent name, no manifest entry has it,
\* and no document with an operation lacking a name reached the id strategy.
AnonymousNeverRegisteredNorIdentified ==
  /\ \A i \in DOMAIN listOperationsByName : listOperationsByName[i].key # 0
  /\ \A i \in DOMAIN operationsByName : operationsByName[i].key # 0
  /\ \A i \in DOMAIN manifestOperations : manifestOperations[i].name # 0
  /\ \A i \in DOMAIN idCalls :
       Count(sources[idCalls[i]].node, IsAnonymousOperation) = 0

\* C8 as stated: with either document source, every operation definition
\* lacking a name yields exactly one anonymous-operation diagnostic on its own
\* source, and is never registered nor passed to the id strategy.
C8_EveryAnonymousOperationReported ==
  Discovered =>
    /\ \A s \in DOMAIN sources :
         AnonymousDiagnostics(sources[s].file, sources[s].location)
           = Count(DefinitionsAt(sources, sources[s].file, sources[s].location),
                   IsAnonymousOperation)
    /\ AnonymousNeverRegisteredNorIdentified

\* The first operation definition of source s lacks a name.
FirstOperationIsAnonymous(s) ==
  /\ OperationDefinitions(sources[s].node) # <<>>
  /\ Head(OperationDefinitions(sources[s].node)).name = 0

\* C8: with file patterns, a document source carries exactly one fatal
\* anonymous-operation diagnostic when the first operation definition of its
\* document lacks a name, and none otherwise (a later operation definition
\* gets the document the multiple-operations diagnostic instead, whether or
\* not it has a name); with an injected custom source the validator is not run
\* and no anonymous-operation diagnostic is made at all. With either source an
\* operation definition lacking a name is never added to the operation name
\* registry, never becomes a manifest entry, and is never passed to the id
\* strategy.
C8_AnonymousOperationHandling ==
  /\ AfterWalk =>
       \A s \in DOMAIN sources :
         AnonymousDiagnostics(sources[s].file, sources[s].location)
           = (IF FirstOperationIsAnonymous(s) THEN 1 ELSE 0)
  /\ (Discovered /\ config.documents = "custom") =>
       \A i \in DOMAIN messages[CodegenFile] :
         messages[CodegenFile][i].reason # "anonymousOperation"
  /\ Discovered => AnonymousNeverRegisteredNorIdentified

\* With file patterns, a document whose only operation lacks a name sits next
\* to a clean named one, and the run has ended at the first gate.
C8_Witness ==
  /\ config.documents = "glob" /\ pc = "exited" /\ exitedAt = 1
  /\ \E s, s2 \in DOMAIN sources :
       /\ FirstOperationIsAnonymous(s)
       /\ AnonymousDiagnostics(sources[s].file, sources[s].location) = 1
       /\ Len(OperationDefinitions(sources[s2].node)) = 1
       /\ ~FirstOperationIsAnonymous(s2)

\* The sources that came from a file, in order.
SourcesOf(file) == SelectSeq(sources, LAMBDA src : src.file = file)

\* Source s carries the diagnostics the walk makes on its own document.
WalkDiagnosticsPresent(src) ==
  /\ Len(OperationDefinitions(src.node)) >= 2 =>
       \E i \in DOMAIN messages[src.file] :
         /\ messages[src.file][i].reason = "multipleOperations"
         /\ messages[src.file][i].location = src.location
  /\ (OperationDefinitions(src.node) # <<>>
       /\ Head(OperationDefinitions(src.node)).name = 0) =>
       \E i \in DOMAIN messages[src.file] :
         /\ messages[src.file][i].reason = "anonymousOperation"
         /\ messages[src.file][i].location = src.location

\* C9: no exception leaves getDocumentSources; when the first gate is reached,
\* a discovered file that fails to parse has given one document source with an
\* absent node and holds a fatal parse diagnostic, and every other discovered
\* file has given all its documents as sources, in order, each carrying the
\* diagnostics of the validator walk.
C9_ParseFailureIsADiagnostic ==
  /\ pc # "threw"
  /\ AfterWalk =>
       \A p \in Range(filepaths) :
         IF fs[p].parses
         THEN /\ [i \in DOMAIN SourcesOf(p) |-> SourcesOf(p)[i].node] = fs[p].docs
              /\ \A i \in DOMAIN SourcesOf(p) : WalkDiagnosticsPresent(SourcesOf(p)[i])
         ELSE /\ Len(SourcesOf(p)) = 1
              /\ SourcesOf(p)[1].node = <<>>
              /\ \E i \in DOMAIN messages[p] :
                   messages[p][i].fatal /\ messages[p][i].reason = "parseError"

\* The first gate has reported on two files: one that failed to parse, and a
\* later one whose document holds an operation without a name.
C9_Witness ==
  /\ PostWalk /\ pc = "exited" /\ exitedAt = 1
  /\ \E p, q \in Range(filepaths) :
       /\ p < q
       /\ ~fs[p].parses
       /\ \E i \in DOMAIN messages[p] : messages[p][i].reason = "parseError"
       /\ fs[q].parses
       /\ \E i \in DOMAIN messages[q] : messages[q][i].reason = "anonymousOperation"

\* The multiple-operations diagnostics a file holds at a location.
MultipleOperationsDiagnostics(file, location) ==
  Count(messages[file],
        LAMBDA m : m.fatal /\ m.reason = "multipleOperations" /\ m.location = location)

\* C10: after the walk of fromFilepathList, a document source holding k >= 2
\* operation definitions carries exactly one fatal multiple-operations
\* diagnostic, whatever k is, and a source holding fewer carries none; no
\* manifest is returned from a corpus with such a document.
C10_OneMultipleOperationsDiagnostic ==
  /\ AfterWalk =>
       \A s \in DOMAIN sources :
         MultipleOperationsDiagnostics(sources[s].file, sources[s].location)
           = (IF Len(OperationDefinitions(sources[s].node)) >= 2 THEN 1 ELSE 0)
  /\ (PostWalk /\ pc = "returned") =>
       \A s \in DOMAIN sources : Len(OperationDefinitions(sources[s].node)) <= 1

\* A document of three operation definitions has been walked.
C10_Witness ==
  /\ PostWalk /\ pc = "exited"
  /\ \E s \in DOMAIN sources :
       /\ Len(OperationDefinitions(sources[s].node)) = 3
       /\ MultipleOperationsDiagnostics(sources[s].file, sources[s].location) = 1

\* The execution loop is over.
Executed == pc \in {"gate2", "returned"} \/ (pc = "exited" /\ exitedAt = 2)

\* The execution-error diagnostics a file holds at a location.
ExecutionDiagnostics(file, location) ==
  Count(messages[file],
        LAMBDA m : m.fatal /\ m.reason = "executionError" /\ m.location = location)

\* C11: no exception leaves the execution loop; when the loop is over, every
\* source of the sorted registry was run, each run either reached the link or
\* left one fatal diagnostic on that source's own file and location, and a
\* run in which an execution failed does not return a manifest.
C11_ExecutionErrorsAreDiagnostics ==
  /\ pc # "threw"
  /\ Executed =>
       LET order == executionOrder(operationsByName)
           failed == SelectSeq(order, LAMBDA s : \A i \in DOMAIN idCalls : idCalls[i] # s)
       IN /\ Len(failed) + Len(idCalls) = Len(order)
          /\ \A j \in DOMAIN failed :
               ExecutionDiagnostics(sources[failed[j]].file, sources[failed[j]].location)
                 = Count(failed, LAMBDA s : /\ sources[s].file = sources[failed[j]].file
                                            /\ sources[s].location
                                                 = sources[failed[j]].location)
          /\ failed # <<>> => pc # "returned"

\* The first of two operations failed in the engine, the second reached the
\* link all the same, and the run exited at the second gate.
C11_Witness ==
  /\ pc = "exited" /\ exitedAt = 2
  /\ Len(executionOrder(operationsByName)) = 2
  /\ idCalls = <<executionOrder(operationsByName)[2]>>
  /\ ExecutionDiagnostics(sources[executionOrder(operationsByName)[1]].file,
                          sources[executionOrder(operationsByName)[1]].location) = 1

RECURSIVE AllDefinitions(_)
\* The top-level definitions of all the sources.
AllDefinitions(srcs) ==
  IF srcs = <<>> THEN <<>> ELSE Head(srcs).node \o AllDefinitions(Tail(srcs))

IsValidatorDiagnostic(m) ==
  m.reason \in {"anonymousOperation", "uniqueFragment", "uniqueOperation",
                "multipleOperations"}

\* C12: with an injected custom source no file ever gets an
\* anonymous-operation, duplicate-name or multiple-operations diagnostic, and
\* once the execution loop is over the engine was run once for every named
\* operation definition of the source, each run having either failed in the
\* engine, with its diagnostic, or been given its body and id in the manifest.
C12_CustomSourceSkipsValidatorOnly ==
  config.documents = "custom" =>
    /\ \A f \in Files : \A i \in DOMAIN messages[f] :
         ~IsValidatorDiagnostic(messages[f][i])
    /\ fragmentsByName = <<>> /\ listOperationsByName = <<>>
    /\ Executed =>
         /\ Len(executionOrder(operationsByName))
              = Count(AllDefinitions(sources),
                      LAMBDA d : d.kind = "OperationDefinition" /\ d.name # 0)
         /\ Len(manifestOperations) + ExecutionDiagnostics(CodegenFile, 0)
              = Len(executionOrder(operationsByName))

\* A custom source with an unnamed operation, and the same named operation
\* twice, returned a manifest holding the named operation twice.
C12_Witness ==
  /\ config.documents = "custom" /\ pc = "returned"
  /\ Len(manifestOperations) = 2
  /\ manifestOperations[1].name = manifestOperations[2].name
  /\ \E s \in DOMAIN sources : \E i \in DOMAIN sources[s].node :
       sources[s].node[i].kind = "OperationDefinition" /\ sources[s].node[i].name = 0

\* C13: no exception leaves the custom source of
\* fromGraphQLCodegenPersistedDocuments; when the file is missing, is not
\* JSON, is not an object of strings, or holds a document that fails to parse,
\* the source is a single one with an absent node on the file of the given
\* path, which holds exactly one diagnostic, fatal, and the run ends at the
\* first gate with no operation registered for execution, none executed and
\* no id made.
C13_CodegenSourceFailureIsADiagnostic ==
  /\ pc # "threw"
  /\ (config.documents = "custom" /\ fs[CodegenFile].read /\ ~fs[CodegenFile].parses) =>
       /\ sources = <<[file |-> CodegenFile, node |-> <<>>, location |-> 0]>>
       /\ Len(messages[CodegenFile]) = 1
       /\ messages[CodegenFile][1].fatal
       /\ messages[CodegenFile][1].reason
            \in {"graphqlCodegenManifestFileNotFound", "malformedGraphQLCodegenManifest",
                 "parseError"}
       /\ pc \in {"gate1", "exited"}
       /\ pc = "exited" => exitedAt = 1
       /\ executionOrder(operationsByName) = <<>>
       /\ idCalls = <<>> /\ manifestOperations = <<>>

\* The run exited at the first gate on a persisted-documents file that could
\* not be parsed.
C13_Witness ==
  /\ config.documents = "custom" /\ pc = "exited" /\ exitedAt = 1
  /\ ~fs[CodegenFile].parses
  /\ Len(messages[CodegenFile]) = 1
  /\ messages[CodegenFile][1].reason = "parseError"

\* C14: a custom createOperationId is called once for every operation that
\* reaches the link, with the operation's canonical body (the printed,
\* top-level-sorted document of its source), name and type; the createDefaultId
\* closure it is given returns the id the default strategy assigns to that
\* body; and the value the custom function returns is the id the manifest
\* stores for that operation.
C14_CustomIdStrategyContract ==
  (config.createOperationId = "custom" /\ Executed) =>
    /\ Len(createOperationIdCalls) = Len(manifestOperations)
    /\ Len(createOperationIdCalls) = Len(idCalls)
    /\ \A i \in DOMAIN createOperationIdCalls :
         LET call == createOperationIdCalls[i]
             query == sources[idCalls[i]].node
         IN /\ call.body = print(sortTopLevelDefinitions(query))
            /\ call.operationName = Head(OperationDefinitions(query)).name
            /\ call.type = Head(OperationDefinitions(query)).operation
            /\ call.createDefaultId = defaultCreateOperationId(call.body)
            /\ manifestOperations[i].body = call.body
            /\ manifestOperations[i].name = call.operationName
            /\ manifestOperations[i].type = call.type
            /\ manifestOperations[i].id =
                 (IF call.ret = 0 THEN call.createDefaultId ELSE CustomId(call.ret))

\* A returned manifest of two operations under a custom strategy that fell
\* back to createDefaultId() for one and made up the id of the other.
C14_Witness ==
  /\ pc = "returned" /\ config.createOperationId = "custom"
  /\ Len(manifestOperations) = 2
  /\ \E i, j \in DOMAIN createOperationIdCalls :
       createOperationIdCalls[i].ret = 0 /\ createOperationIdCalls[j].ret # 0

\* C15: the command prints the success line only once the manifest is in the
\* file at the output path, and then ends with status 0; a run that ends in
\* the error exit printed the report to standard error, ended with a non-zero
\* status, wrote no manifest and printed no success line.
C15_SuccessLineOnlyAfterManifestWritten ==
  /\ stdout # <<>> =>
       /\ outputFile = <<manifestOperations>>
       /\ exitCode = <<0>>
  /\ pc = "exited" =>
       /\ HoldsFatal
       /\ stderr = <<"report">>
       /\ exitCode = <<1>>
       /\ outputFile = <<>>
       /\ stdout = <<>>

\* ------------------------------------------------ getFilepaths on its own
\* A vfile built without a path, as an injected custom source may hold.
Pathless == MaxFiles + 1

\* What the callback of an injected custom source may return as sources.
CustomSources ==
  UNION {[1 .. n -> [file : Files \cup {Pathless}, node : {<<>>}, location : {0}]]
           : n \in 0 .. MaxGlob}

\* getFilepaths for a custom source:
\* [...new Set(sources.filter(({ file }) => file.path).map(({ file }) => file.path))]
getFilepathsCustom(srcs) ==
  LET withPath == SelectSeq(srcs, LAMBDA source : source.file # Pathless)
  IN uniq([i \in DOMAIN withPath |-> withPath[i].file])

\* The call getFilepaths(documents) is about to be made; the custom source's
\* callback will return `sources`.
GetFilepathsInit ==
  /\ config \in [documents : {"glob", "custom"},
                 createOperationId : {"unread"},
                 configFilePath : {"unread"}]
  /\ pc = "getFilepaths"
  /\ sources \in (IF config.documents = "custom" THEN CustomSources ELSE {<<>>})
  /\ fs = [p \in Files |-> Unread]
  /\ filepaths = <<>>
  /\ cursor = 0
  /\ messages = [f \in Files |-> <<>>]
  /\ fragmentsByName = <<>>
  /\ listOperationsByName = <<>>
  /\ operationsByName = <<>>
  /\ exitedAt = 0
  /\ configFile = configFileOf(config)
  /\ manifestOperationIds = <<>>
  /\ manifestOperations = <<>>
  /\ idCalls = <<>>
  /\ createOperationIdCalls = <<>>
  /\ stdout = <<>>
  /\ stderr = <<>>
  /\ exitCode = <<>>
  /\ outputFile = <<>>
  /\ NoCaches

\* getFilepaths(documents), either branch.
GetFilepathsCall ==
  /\ pc = "getFilepaths"
  /\ IF config.documents = "custom"
     THEN filepaths' = getFilepathsCustom(sources)
     ELSE \E globbed \in GlobResults : filepaths' = getFilepaths(globbed)
  /\ pc' = "gotFilepaths"
  /\ UNCHANGED <<cacheVars, cliVars, config, fs, cursor, sources, messages, validatorVars,
                 operationsByName, exitedAt, engineVars>>

GetFilepathsNext == GetFilepathsCall

GetFilepathsSpec == GetFilepathsInit /\ [][GetFilepathsNext]_vars

\* C16: the list getFilepaths returns is strictly ascending in the order of
\* the paths (so it holds no path twice), for a glob specification and for an
\* injected custom source alike.
C16_FilepathsUniqueAndAscending ==
  pc = "gotFilepaths" =>
    \A i, j \in DOMAIN filepaths : i < j => filepaths[i] < filepaths[j]

\* ------------------------------------------------- the walk, violation by
\* violation
\* Source s holds a diagnostic of this reason and name against file ref.
HasDiagnostic(s, reason, name, ref) ==
  \E k \in DOMAIN messages[sources[s].file] :
    LET m == messages[sources[s].file][k]
    IN /\ m.fatal /\ m.reason = reason /\ m.name = name /\ m.ref = ref
       /\ m.location = sources[s].location

\* Source s holds a diagnostic of this reason, whatever it names.
HasDiagnosticOf(s, reason) ==
  \E k \in DOMAIN messages[sources[s].file] :
    LET m == messages[sources[s].file][k]
    IN m.fatal /\ m.reason = reason /\ m.location = sources[s].location

\* The walk examines the i-th definition of source s: a fragment definition
\* before the document's second operation definition, or the document's first
\* operation definition.
Examined(s, i) ==
  OperationsBefore(s, i)
    <= (IF sources[s].node[i].kind = "FragmentDefinition" THEN 1 ELSE 0)

\* Every violation among the definitions Covered(s, i) has its diagnostic.
EveryViolationReported(Covered(_, _)) ==
  \A s \in DOMAIN sources :
    /\ Len(OperationDefinitions(sources[s].node)) >= 2 =>
         HasDiagnosticOf(s, "multipleOperations")
    /\ \A i \in DOMAIN sources[s].node :
         LET d == sources[s].node[i]
         IN Covered(s, i) =>
              /\ IsAnonymousOperation(d) => HasDiagnosticOf(s, "anonymousOperation")
              /\ ~IsAnonymousOperation(d) =>
                   \A s2 \in DOMAIN sources : \A i2 \in DOMAIN sources[s2].node :
                     ( /\ <<s2, i2>> # <<s, i>>
                       /\ Covered(s2, i2)
                       /\ sources[s2].node[i2].kind = d.kind
                       /\ sources[s2].node[i2].name = d.name ) =>
                       HasDiagnostic(s, DuplicateReason(d.kind), d.name, sources[s2].file)

\* C17 as stated: after the walk of fromFilepathList every violation of the
\* corpus (each operation without a name, each name declared twice, each
\* document of several operations) has its diagnostic, wherever it stands.
C17_EveryViolationHasItsDiagnostic ==
  AfterWalk => EveryViolationReported(LAMBDA s, i : TRUE)

\* C17: the walk does not stop at the first violation: after the walk of
\* fromFilepathList every document of several operations has its
\* multiple-operations diagnostic, and every violation among the definitions
\* the walk examines (the fragment definitions before a document's second
\* operation definition, and its first operation definition) has its
\* diagnostic, also when the same document, the same file or an earlier file
\* already holds one.
C17_EveryExaminedViolationHasItsDiagnostic ==
  AfterWalk => EveryViolationReported(Examined)

\* A document declares a fragment name twice and then an operation without a
\* name: the later violation is reported after the earlier one.
C17_Witness ==
  /\ AfterWalk
  /\ \E s \in DOMAIN sources :
       /\ Len(sources[s].node) = 3
       /\ sources[s].node[1] = sources[s].node[2]
       /\ sources[s].node[1].kind = "FragmentDefinition"
       /\ IsAnonymousOperation(sources[s].node[3])
       /\ HasDiagnostic(s, "uniqueFragment", sources[s].node[1].name, sources[s].file)
       /\ HasDiagnosticOf(s, "anonymousOperation")

\* --------------------------------------- the prefixing caches on their own
\* Two prefixing caches have been built over one wrapped cache, which holds
\* nothing yet.
CacheInit ==
  /\ wrapped \in WrappedClasses
  /\ inner = [key \in WrappedKeys |-> undefined]
  /\ prefixing \in {<<PrefixingKeyValueCache(wrapped, p1), PrefixingKeyValueCache(wrapped, p2)>>
                      : p1 \in CachePrefixes, p2 \in CachePrefixes}
  /\ lastCall = NoCall
  /\ config = [documents |-> "glob", createOperationId |-> "unread",
               configFilePath |-> "unread"]
  /\ pc = "caches"
  /\ fs = [p \in Files |-> Unread]
  /\ filepaths = <<>>
  /\ cursor = 0
  /\ sources = <<>>
  /\ messages = [f \in Files |-> <<>>]
  /\ fragmentsByName = <<>>
  /\ listOperationsByName = <<>>
  /\ operationsByName = <<>>
  /\ exitedAt = 0
  /\ configFile = configFileOf(config)
  /\ manifestOperationIds = <<>>
  /\ manifestOperations = <<>>
  /\ idCalls = <<>>
  /\ createOperationIdCalls = <<>>
  /\ stdout = <<>>
  /\ stderr = <<>>
  /\ exitCode = <<>>
  /\ outputFile = <<>>

pipelineVars ==
  <<config, pc, loaderVars, cursor, messages, validatorVars, operationsByName,
    exitedAt, engineVars, cliVars>>

\* await cache.get(key) on one of the prefixing caches.
CacheGet ==
  /\ pc = "caches"
  /\ \E c \in DOMAIN prefixing, key \in CacheKeys :
       lastCall' = [cache |-> c, method |-> "get", key |-> key, value |-> undefined,
                    wrappedKey |-> wrappedKey(prefixing[c], key),
                    returned |-> prefixingGet(prefixing[c], inner, key)]
  /\ UNCHANGED <<wrapped, inner, prefixing, pipelineVars>>

\* await cache.set(key, value) on one of the prefixing caches.
CacheSet ==
  /\ pc = "caches"
  /\ \E c \in DOMAIN prefixing, key \in CacheKeys, value \in CacheValues :
       /\ inner' = prefixingSet(prefixing[c], inner, key, value)
       /\ lastCall' = [cache |-> c, method |-> "set", key |-> key, value |-> value,
                       wrappedKey |-> wrappedKey(prefixing[c], key),
                       returned |-> undefined]
  /\ UNCHANGED <<wrapped, prefixing, pipelineVars>>

\* await cache.delete(key) on one of the prefixing caches.
CacheDelete ==
  /\ pc = "caches"
  /\ \E c \in DOMAIN prefixing, key \in CacheKeys :
       /\ inner' = prefixingDelete(prefixing[c], inner, key)
       /\ lastCall' = [cache |-> c, method |-> "delete", key |-> key, value |-> undefined,
                       wrappedKey |-> wrappedKey(prefixing[c], key),
                       returned |->
                         IF prefixingGet(prefixing[c], inner, key) = undefined
                         THEN "false" ELSE "true"]
  /\ UNCHANGED <<wrapped, prefixing, pipelineVars>>

CacheNext == CacheGet \/ CacheSet \/ CacheDelete

CacheSpec == CacheInit /\ [][CacheNext]_vars

\* The prefix the claim calls E, for a cache built with prefix argument p.
EffectivePrefix(p) ==
  IF wrapped = "PrefixesAreUnnecessaryForIsolationCache" THEN <<>> ELSE p

\* C18: a call of get, set or delete with key k on a prefixing cache built
\* with prefix P reaches the wrapped cache with key E + k, E being empty when
\* the wrapped cache is marked prefixesAreUnnecessaryForIsolation and P
\* otherwise; after set(k, v) the wrapped cache holds v under E + k and get(k)
\* gives v; after delete(k) it holds nothing under E + k and get(k) gives
\* undefined; get(k) returns what the wrapped cache holds under E + k.
C18_DelegatesWithEffectivePrefix ==
  lastCall.method # "none" =>
    LET this == prefixing[lastCall.cache]
        delegated == EffectivePrefix(this.prefixArg) \o lastCall.key
    IN /\ lastCall.wrappedKey = delegated
       /\ lastCall.method = "set" =>
            /\ inner[delegated] = lastCall.value
            /\ prefixingGet(this, inner, lastCall.key) = lastCall.value
       /\ lastCall.method = "delete" =>
            /\ inner[delegated] = undefined
            /\ prefixingGet(this, inner, lastCall.key) = undefined
       /\ lastCall.method = "get" => lastCall.returned = inner[delegated]

\* A cache built with a non-empty prefix over a marked cache has just deleted
\* a key that it had set: the entry, stored under the bare key, is gone.
C18_Witness ==
  /\ wrapped = "PrefixesAreUnnecessaryForIsolationCache"
  /\ lastCall.method = "delete" /\ lastCall.returned = "true"
  /\ prefixing[lastCall.cache].prefixArg # <<>>
  /\ lastCall.wrappedKey = lastCall.key
  /\ inner[lastCall.key] = undefined

\* p is an initial segment of q.
IsPrefixOf(p, q) == Len(p) <= Len(q) /\ SubSeq(q, 1, Len(p)) = p

\* A step in which a set or a delete is made on one prefixing cache leaves
\* what get returns on the other one, for every key, as it was.
OtherCacheUndisturbed ==
  lastCall'.method \in {"set", "delete"} =>
    \A other \in DOMAIN prefixing \ {lastCall'.cache}, key \in CacheKeys :
      prefixingGet(prefixing'[other], inner', key) = prefixingGet(prefixing[other], inner, key)

SourceFileHoldsDiagnostic ==
  \E s \in DOMAIN sources : messages[sources[s].file] # <<>>

\* C20: when the first gate is reached while a file of some document source
\* holds a diagnostic, the run ends there, with the report on standard error;
\* a run that ended at the first gate has executed no operation, called
\* createOperationId for none and recorded none; and an operation is executed
\* (client.query, which is where the document transform and createOperationId
\* run) only in a run that passed the first gate, where the only diagnostics
\* its source files can hold are those of earlier executions.
C20_SourceDiagnosticAbortsAtFirstGate ==
  [][ /\ (pc = "gate1" /\ SourceFileHoldsDiagnostic) =>
           (pc' = "exited" /\ exitedAt' = 1 /\ stderr' = <<"report">>)
      /\ exitedAt' = 1 =>
           /\ pc # "execute"
           /\ pc' = "exited"
           /\ cursor' = 0
           /\ idCalls' = <<>>
           /\ createOperationIdCalls' = <<>>
           /\ manifestOperations' = <<>>
           /\ manifestOperationIds' = <<>>
      /\ pc = "execute" =>
           /\ exitedAt = 0
           /\ \A f \in Files : \A i \in DOMAIN messages[f] :
                messages[f][i].reason = "executionError"
    ]_vars

\* The walk left a diagnostic on one file while another file's named operation
\* was ready to be executed: the run ended at the first gate with nothing
\* executed.
C20_Witness ==
  /\ pc = "exited" /\ exitedAt = 1
  /\ config.documents = "glob"
  /\ executionOrder(operationsByName) # <<>>
  /\ \E f, g \in Range(filepaths) : messages[f] # <<>> /\ messages[g] = <<>>
  /\ idCalls = <<>> /\ manifestOperations = <<>>

\* ------------------------------------------------- the execution loop
RECURSIVE FlattenKeys(_)
\* For each source of Flatten(entries), the name it is registered under.
FlattenKeys(entries) ==
  IF entries = <<>> THEN <<>>
  ELSE [i \in DOMAIN Head(entries).val |-> Head(entries).key]
       \o FlattenKeys(Tail(entries))

\* The execution-error diagnostics held by all the files together.
ExecutionErrors ==
  Cardinality({fi \in UNION {{<<f, i>> : i \in DOMAIN messages[f]} : f \in Files} :
                 messages[fi[1]][fi[2]].reason = "executionError"})

\* C21: operations are executed one at a time in ascending order of name: a
\* step calls the id strategy for one operation at most, the one the loop has
\* reached, and pushes its manifest entry in the same step; at that moment
\* every operation before it in the loop has a name that is not greater and is
\* finished, each having either its own id call and manifest entry or its
\* execution-error diagnostic.
C21_OneAtATimeInNameOrder ==
  [][ idCalls' # idCalls =>
        LET order == executionOrder(operationsByName)
            names == FlattenKeys(sortByFirst(operationsByName))
        IN /\ pc = "execute"
           /\ idCalls' = Append(idCalls, order[cursor + 1])
           /\ Len(manifestOperations') = Len(manifestOperations) + 1
           /\ manifestOperations'[Len(manifestOperations')].name = names[cursor + 1]
           /\ Len(idCalls) = Len(manifestOperations)
           /\ Len(idCalls) + ExecutionErrors = cursor
           /\ \A k \in 1 .. cursor : names[k] <= names[cursor + 1]
    ]_vars

\* Two operations were registered with the greater name first; the loop ran
\* the smaller name first, and both reached the id strategy.
C21_Witness ==
  /\ pc = "gate2"
  /\ Len(operationsByName) = 2
  /\ operationsByName[1].key > operationsByName[2].key
  /\ Len(idCalls) = 2
  /\ manifestOperations[1].name < manifestOperations[2].name

\* ------------------------------------------- names and manifest entries
\* The entries of the manifest that carry name n.
EntriesNamed(n) == Count(manifestOperations, LAMBDA op : op.name = n)

\* C22 as stated: a returned manifest has as many operations as there are
\* distinct registered operation names, and no name occurs in it twice,
\* whatever the document source.
C22_OneEntryPerName ==
  pc = "returned" =>
    /\ Len(manifestOperations) = Len(operationsByName)
    /\ \A i, j \in DOMAIN manifestOperations :
         i # j => manifestOperations[i].name # manifestOperations[j].name

\* C22: a returned manifest has one operation for each registered
\* name-to-source mapping: each name occurs in it as many times as it has
\* registered sources, which is as many times as the sources declare it; with
\* file patterns that is once for each registered name, so no name occurs
\* twice.
C22_OneEntryPerRegisteredSource ==
  pc = "returned" =>
    /\ Len(manifestOperations) = Len(executionOrder(operationsByName))
    /\ \A i \in DOMAIN operationsByName :
         EntriesNamed(operationsByName[i].key) = Len(operationsByName[i].val)
    /\ \A n \in 1 .. MaxName :
         EntriesNamed(n)
           = Count(AllDefinitions(sources),
                   LAMBDA d : d.kind = "OperationDefinition" /\ d.name = n)
    /\ config.documents = "glob" =>
         /\ Len(manifestOperations) = Len(operationsByName)
         /\ \A n \in 1 .. MaxName : EntriesNamed(n) <= 1

\* A custom source registered one name with two sources, and the returned
\* manifest holds two operations of that name.
C22_Witness ==
  /\ pc = "returned" /\ config.documents = "custom"
  /\ Len(operationsByName) = 1
  /\ Len(operationsByName[1].val) = 2
  /\ EntriesNamed(operationsByName[1].key) = 2

\* ------------------------------------------------ the id check, by default
\* The entries of the manifest whose id an earlier entry holds.
RepeatedIds ==
  {j \in DOMAIN manifestOperations :
     \E i \in 1 .. j - 1 : manifestOperations[i].id = manifestOperations[j].id}

DefaultsInPlay ==
  config.createOperationId = "default" /\ config.configFilePath = "absent"

Rejected(s) ==
  MultipleOperationsDiagnostics(sources[s].file, sources[s].location) >= 1

\* File g holds a duplicate-operation diagnostic that names file h.
BlamedFor(g, h) ==
  \E i \in DOMAIN messages[g] :
    messages[g][i].reason = "uniqueOperation" /\ messages[g][i].ref = h

\* C24 as stated: once the walks are over, a document rejected for declaring
\* several operations is in neither operation registry, no other source
\* carries a duplicate-name diagnostic that names it, and none of its
\* operations was executed.
C24_RejectedDocumentUnregistered ==
  (PostWalk /\ pc = "exited") =>
    \A s \in DOMAIN sources :
      Rejected(s) =>
        /\ \A n \in 1 .. MaxName :
             /\ s \notin Range(MapGetOr(operationsByName, n))
             /\ s \notin Range(MapGetOr(listOperationsByName, n))
        /\ \A s2 \in DOMAIN sources \ {s} :
             ~BlamedFor(sources[s2].file, sources[s].file)
        /\ s \notin Range(idCalls)

\* C24: a document rejected for declaring several operations is walked no
\* further, the run ends at the first gate and none of its operations is
\* executed; its operations stay registered, though: its first operation,
\* when named, is in the validator's registry and is reported as a duplicate
\* with every other source that registers the name, each on the other, and
\* the registry of the run holds the document under each of its named
\* operations, once for each declaration.
C24_RejectedDocumentStaysRegistered ==
  PostWalk =>
    \A s \in DOMAIN sources :
      Rejected(s) =>
        /\ pc \in {"gate1", "exited"}
        /\ idCalls = <<>> /\ manifestOperations = <<>>
        /\ pc = "exited" =>
             /\ exitedAt = 1
             /\ \A n \in 1 .. MaxName :
                  Count(MapGetOr(operationsByName, n), LAMBDA x : x = s)
                    = Count(sources[s].node,
                            LAMBDA d : d.kind = "OperationDefinition" /\ d.name = n)
        /\ \A n \in 1 .. MaxName :
             Registers(s, "OperationDefinition", n) =>
               /\ s \in Range(MapGetOr(listOperationsByName, n))
               /\ \A s2 \in DOMAIN sources \ {s} :
                    Registers(s2, "OperationDefinition", n) =>
                      /\ ReportsEachOther(s, "OperationDefinition", n, {s, s2})
                      /\ ReportsEachOther(s2, "OperationDefinition", n, {s, s2})

\* A rejected document whose first operation bears the name of another
\* source's operation: the other source is blamed for the duplicate, and the
\* registry of the run holds the rejected document under a name the
\* validator never registered.
C24_Witness ==
  /\ PostWalk /\ pc = "exited" /\ exitedAt = 1
  /\ \E s \in DOMAIN sources, s2 \in DOMAIN sources :
       /\ s # s2 /\ Rejected(s) /\ ~Rejected(s2)
       /\ Len(sources[s2].node) = 1
       /\ BlamedFor(sources[s2].file, sources[s].file)
       /\ \E n \in 1 .. MaxName :
            /\ ~Registers(s, "OperationDefinition", n)
            /\ s \in Range(MapGetOr(operationsByName, n))

\* ------------------------------------------- what the gates look at
\* Some file of the set holds a fatal diagnostic.
SomeFatalAmong(files) ==
  \E f \in files : \E i \in DOMAIN messages[f] : messages[f][i].fatal

\* C25: every diagnostic a source file or the config-level file holds is
\* fatal, so in every state the test of the gates, "some file has at least one
\* message", holds of the source files, and of the source files with the
\* config-level file, exactly when one of those files holds a fatal
\* diagnostic.
C25_EveryDiagnosticIsFatal ==
  /\ \A f \in DOMAIN messages : \A i \in DOMAIN messages[f] : messages[f][i].fatal
  /\ \A i \in DOMAIN configFile.messages : configFile.messages[i].fatal
  /\ maybeReportErrorsAndExit(SourceFiles(sources), messages)
       <=> SomeFatalAmong(SourceFiles(sources))
  /\ (\/ maybeReportErrorsAndExit(Files, messages)
      \/ Len(configFile.messages) > 0) <=> HoldsFatal

\* The second gate ended a run in which a source file holds a diagnostic and
\* the config-level file holds one too.
C25_Witness ==
  /\ pc = "exited" /\ exitedAt = 2
  /\ maybeReportErrorsAndExit(SourceFiles(sources), messages)
  /\ Len(configFile.messages) > 0
====
